---- MODULE Spec2Model ----
(***************************************************************************)
(* A model of alembic_utils' statement helpers (statement.py) and of the   *)
(* materialized view entity (pg_materialized_view.py).                     *)
(*                                                                         *)
(* Text is a sequence of one-character strings, so that trimming,          *)
(* replacing and template matching are computed character by character,   *)
(* the way the Python code computes them.                                  *)
(***************************************************************************)
EXTENDS Integers, Sequences, FiniteSets, TLC

VARIABLES pc, arg, ret, yielded

vars == <<pc, arg, ret, yielded>>

(***************************************************************************)
(* Bounds of the model.                                                    *)
(***************************************************************************)
MaxStripLen == 5     \* longest input of strip_terminating_semicolon
MaxEscLen == 4       \* longest input of escape_colon_for_plpgsql
MaxGap == 1          \* widest run of blanks inside a WITH [NO] DATA clause
MaxStmts == 2        \* most top-level statements in one split_function input

(***************************************************************************)
(* Characters and keywords.                                                *)
(***************************************************************************)
LowerLetters == <<"a","b","c","d","e","f","g","h","i","j","k","l","m",
                  "n","o","p","q","r","s","t","u","v","w","x","y","z">>
UpperLetters == <<"A","B","C","D","E","F","G","H","I","J","K","L","M",
                  "N","O","P","Q","R","S","T","U","V","W","X","Y","Z">>

Whitespace == {" ", "\t", "\n"}

\* str.lower(), one character
LowerChar(c) ==
    IF \E i \in 1..26 : UpperLetters[i] = c
    THEN LowerLetters[CHOOSE i \in 1..26 : UpperLetters[i] = c]
    ELSE c

\* str.upper(), one character
UpperChar(c) ==
    IF \E i \in 1..26 : LowerLetters[i] = c
    THEN UpperLetters[CHOOSE i \in 1..26 : LowerLetters[i] = c]
    ELSE c

lower(s) == [i \in 1..Len(s) |-> LowerChar(s[i])]
upper(s) == [i \in 1..Len(s) |-> UpperChar(s[i])]

kw_create == <<"c","r","e","a","t","e">>
kw_materialized == <<"m","a","t","e","r","i","a","l","i","z","e","d">>
kw_view == <<"v","i","e","w">>
kw_as == <<"a","s">>
kw_with == <<"w","i","t","h">>
kw_no == <<"n","o">>
kw_data == <<"d","a","t","a">>
kw_returns == <<"r","e","t","u","r","n","s">>
kw_function == <<"f","u","n","c","t","i","o","n">>
kw_drop == <<"d","r","o","p">>
kw_if == <<"i","f">>
kw_exists == <<"e","x","i","s","t","s">>
kw_select == <<"s","e","l","e","c","t">>
kw_from == <<"f","r","o","m">>
kw_public == <<"p","u","b","l","i","c">>
kw_integer == <<"i","n","t","e","g","e","r">>
kw_void == <<"v","o","i","d">>

SP == <<" ">>
DQ == <<"\"">>

\* n blanks
RECURSIVE Blanks(_)
Blanks(n) == IF n = 0 THEN <<>> ELSE SP \o Blanks(n - 1)

\* every text over the alphabet, up to n characters
RECURSIVE TextsUpTo(_, _)
TextsUpTo(alphabet, n) ==
    IF n = 0 THEN {<<>>}
    ELSE LET shorter == TextsUpTo(alphabet, n - 1)
         IN  shorter \cup {Append(t, c) : t \in shorter, c \in alphabet}

(***************************************************************************)
(* Python str primitives.                                                  *)
(***************************************************************************)
\* s[i:] starts with lit
HasPrefixAt(s, i, lit) ==
    /\ i + Len(lit) - 1 <= Len(s)
    /\ \A k \in 1..Len(lit) : s[i + k - 1] = lit[k]

\* str.rstrip(chars)
RECURSIVE rstrip(_, _)
rstrip(s, chars) ==
    IF Len(s) > 0 /\ s[Len(s)] \in chars
    THEN rstrip(SubSeq(s, 1, Len(s) - 1), chars)
    ELSE s

\* str.lstrip(chars)
RECURSIVE lstrip(_, _)
lstrip(s, chars) ==
    IF Len(s) > 0 /\ s[1] \in chars
    THEN lstrip(Tail(s), chars)
    ELSE s

\* str.strip()
strip(s) == lstrip(rstrip(s, Whitespace), Whitespace)

\* str.replace(old, new): leftmost occurrences, not overlapping
RECURSIVE replace(_, _, _)
replace(s, old, new) ==
    IF Len(s) = 0 THEN <<>>
    ELSE IF HasPrefixAt(s, 1, old)
         THEN new \o replace(SubSeq(s, Len(old) + 1, Len(s)), old, new)
         ELSE <<s[1]>> \o replace(Tail(s), old, new)

\* str.split(): the words between runs of whitespace
RECURSIVE split_ws(_)
split_ws(s) ==
    LET t == lstrip(s, Whitespace)
        n == IF \E i \in 1..Len(t) : t[i] \in Whitespace
             THEN (CHOOSE i \in 1..Len(t) :
                      /\ t[i] \in Whitespace
                      /\ \A j \in 1..(i - 1) : t[j] \notin Whitespace) - 1
             ELSE Len(t)
    IN  IF Len(t) = 0 THEN <<>>
        ELSE <<SubSeq(t, 1, n)>> \o split_ws(SubSeq(t, n + 1, Len(t)))

\* sep.join(words)
RECURSIVE join(_, _)
join(sep, words) ==
    IF Len(words) = 0 THEN <<>>
    ELSE IF Len(words) = 1 THEN words[1]
    ELSE words[1] \o sep \o join(sep, Tail(words))

\* s.split(c)[0]
RECURSIVE before_first(_, _)
before_first(s, c) ==
    IF Len(s) = 0 \/ s[1] = c THEN <<>>
    ELSE <<s[1]>> \o before_first(Tail(s), c)

\* number of non-overlapping occurrences of lit in s, len(s.split(lit)) - 1
RECURSIVE count(_, _)
count(s, lit) ==
    IF Len(s) < Len(lit) THEN 0
    ELSE IF HasPrefixAt(s, 1, lit)
         THEN 1 + count(SubSeq(s, Len(lit) + 1, Len(s)), lit)
         ELSE count(Tail(s), lit)

(***************************************************************************)
(* statement.py                                                            *)
(***************************************************************************)
normalize_whitespace(text) == strip(join(SP, split_ws(text)))

\* a strip_terminating_semicolon that removes one semicolon only
strip_one_semicolon(sql) ==
    LET t == strip(sql)
    IN  IF Len(t) > 0 /\ t[Len(t)] = ";" THEN strip(SubSeq(t, 1, Len(t) - 1)) ELSE t

strip_terminating_semicolon(sql) == strip(rstrip(strip(sql), {";"}))

coerce_to_unquoted(text) == replace(text, DQ, <<>>)

\* the uuid4 placeholders: three texts that no input contains
holder1 == <<"<uuid-1>">>
holder2 == <<"<uuid-2>">>
holder3 == <<"<uuid-3>">>

COLON == <<":">>
BACKSLASH == <<"\\">>

\* an escape_colon_for_plpgsql that forgets to protect the := operator
escape_colon_unprotected_assignment(sql) ==
    LET s1 == replace(sql, COLON \o COLON, holder1)
        s3 == replace(s1, BACKSLASH \o COLON, holder3)
        s4 == replace(s3, COLON, BACKSLASH \o COLON)
        s5 == replace(s4, holder3, BACKSLASH \o COLON)
    IN  replace(s5, holder1, COLON \o COLON)

escape_colon_for_plpgsql(sql) ==
    LET s1 == replace(sql, COLON \o COLON, holder1)
        s2 == replace(s1, COLON \o <<"=">>, holder2)
        s3 == replace(s2, BACKSLASH \o COLON, holder3)
        s4 == replace(s3, COLON, BACKSLASH \o COLON)
        s5 == replace(s4, holder3, BACKSLASH \o COLON)
        s6 == replace(s5, holder2, COLON \o <<"=">>)
    IN  replace(s6, holder1, COLON \o COLON)

(***************************************************************************)
(* parse.parse(template, text, case_sensitive=False).  A template is       *)
(* compiled to the regular expression \A...\Z with IGNORECASE and DOTALL: *)
(* literal text matches itself, {} and {name} are the lazy group (.+?),   *)
(* {:s} is the greedy group (\s+).  The match found is the first one in   *)
(* backtracking order.                                                     *)
(***************************************************************************)
Lit(text) == [kind |-> "lit", lit |-> text, name |-> ""]
Anon == [kind |-> "any", lit |-> <<>>, name |-> ""]
Field(n) == [kind |-> "any", lit |-> <<>>, name |-> n]
Ws == [kind |-> "ws", lit |-> <<>>, name |-> ""]

NoMatch == [ok |-> FALSE, named |-> [n \in {} |-> <<>>]]
EmptyMatch == [ok |-> TRUE, named |-> [n \in {} |-> <<>>]]

\* the length of the run of whitespace that starts at s[pos]
RECURSIVE WsRun(_, _)
WsRun(s, pos) ==
    IF pos <= Len(s) /\ s[pos] \in Whitespace THEN 1 + WsRun(s, pos + 1) ELSE 0

Bind(name, text, m) ==
    IF name = "" THEN m
    ELSE [ok |-> TRUE, named |-> (name :> text) @@ m.named]

RECURSIVE MatchFrom(_, _, _, _, _)
RECURSIVE TryAny(_, _, _, _, _, _)
RECURSIVE TryWs(_, _, _, _, _, _)

\* match tpl[k..] against s[pos..]; ls is s in lower case
MatchFrom(tpl, k, s, ls, pos) ==
    IF k > Len(tpl)
    THEN IF pos = Len(s) + 1 THEN EmptyMatch ELSE NoMatch
    ELSE LET e == tpl[k]
         IN  CASE e.kind = "lit" ->
                    IF HasPrefixAt(ls, pos, e.lit)
                    THEN MatchFrom(tpl, k + 1, s, ls, pos + Len(e.lit))
                    ELSE NoMatch
               [] e.kind = "ws" -> TryWs(tpl, k, s, ls, pos, WsRun(s, pos))
               [] e.kind = "any" -> TryAny(tpl, k, s, ls, pos, 1)

\* (.+?): the shortest text first
TryAny(tpl, k, s, ls, pos, n) ==
    IF pos + n - 1 > Len(s) THEN NoMatch
    ELSE LET m == MatchFrom(tpl, k + 1, s, ls, pos + n)
         IN  IF m.ok
             THEN Bind(tpl[k].name, SubSeq(s, pos, pos + n - 1), m)
             ELSE TryAny(tpl, k, s, ls, pos, n + 1)

\* (\s+): the longest run first
TryWs(tpl, k, s, ls, pos, n) ==
    IF n < 1 THEN NoMatch
    ELSE LET m == MatchFrom(tpl, k + 1, s, ls, pos + n)
         IN  IF m.ok THEN m ELSE TryWs(tpl, k, s, ls, pos, n - 1)

parse(template, text) == MatchFrom(template, 1, text, lower(text), 1)

(***************************************************************************)
(* pg_materialized_view.py                                                 *)
(***************************************************************************)
\* os.environ.get("NEVER_INCLUDE_SCHEMA", "false"): the default
NEVER_INCLUDE_SCHEMA == FALSE

DOT == <<".">>

\* "create{}materialized{}view{:s}": the head of every template
TemplateHead == <<Lit(kw_create), Anon, Lit(kw_materialized), Anon, Lit(kw_view), Ws>>

\* "{:s}as{:s}{definition}"
TemplateAs == <<Ws, Lit(kw_as), Ws, Field("definition")>>

\* "{:s}with{:s}data"
TemplateWithData == <<Ws, Lit(kw_with), Ws, Lit(kw_data)>>

\* "{}with{:s}{no_data}{:s}data"
TemplateNoData == <<Anon, Lit(kw_with), Ws, Field("no_data"), Ws, Lit(kw_data)>>

\* "{schema}.{signature}"
TemplateQualified == <<Field("schema"), Lit(DOT), Field("signature")>>

\* "{signature}"
TemplateUnqualified == <<Field("signature")>>

\* the template list with the bare qualified template tried before the others
templates_bare_first ==
    << TemplateHead \o TemplateQualified \o TemplateAs,
       TemplateHead \o TemplateQualified \o TemplateAs \o TemplateWithData,
       TemplateHead \o TemplateQualified \o TemplateAs \o TemplateNoData,
       TemplateHead \o TemplateUnqualified \o TemplateAs \o TemplateWithData,
       TemplateHead \o TemplateUnqualified \o TemplateAs \o TemplateNoData,
       TemplateHead \o TemplateUnqualified \o TemplateAs >>

templates ==
    << TemplateHead \o TemplateQualified \o TemplateAs \o TemplateWithData,
       TemplateHead \o TemplateQualified \o TemplateAs \o TemplateNoData,
       TemplateHead \o TemplateQualified \o TemplateAs,
       TemplateHead \o TemplateUnqualified \o TemplateAs \o TemplateWithData,
       TemplateHead \o TemplateUnqualified \o TemplateAs \o TemplateNoData,
       TemplateHead \o TemplateUnqualified \o TemplateAs >>

\* PGMaterializedView.__init__
__init__(signature, definition, schema, with_data) ==
    LET schema1 == IF NEVER_INCLUDE_SCHEMA THEN kw_public ELSE schema
    IN  [ schema |-> coerce_to_unquoted(normalize_whitespace(schema1)),
          signature |-> coerce_to_unquoted(normalize_whitespace(signature)),
          definition |-> strip_terminating_semicolon(definition),
          with_data |-> with_data,
          include_schema_prefix |-> schema1 # kw_public ]

NoEntity ==
    [ schema |-> <<>>, signature |-> <<>>, definition |-> <<>>,
      with_data |-> FALSE, include_schema_prefix |-> FALSE ]

NoResult == [raised |-> "", template |-> 0, entity |-> NoEntity]

\* the for loop of from_sql: the first template, from the i-th on, that matches
RECURSIVE first_match(_, _, _)
first_match(tpls, i, sql) ==
    IF i > Len(tpls) THEN [template |-> 0, result |-> NoMatch]
    ELSE LET result == parse(tpls[i], sql)
         IN  IF result.ok THEN [template |-> i, result |-> result]
             ELSE first_match(tpls, i + 1, sql)

\* PGMaterializedView.from_sql
from_sql(sql0) ==
    LET sql == strip_terminating_semicolon(sql0)
        found == first_match(templates, 1, sql)
        named == found.result.named
        with_data == ~ ("no_data" \in DOMAIN named)
        signature == before_first(named["signature"], "(")
        schema0 == IF "schema" \in DOMAIN named THEN named["schema"] ELSE kw_public
        schema == IF NEVER_INCLUDE_SCHEMA THEN kw_public ELSE schema0
    IN  IF found.template = 0
        THEN [raised |-> "SQLParseFailure", template |-> 0, entity |-> NoEntity]
        ELSE [ raised |-> "", template |-> found.template,
               entity |-> __init__(replace(signature, DQ, <<>>),
                                   named["definition"], schema, with_data) ]

\* ReplaceableEntity.literal_schema_prefix
literal_schema_prefix(self) ==
    IF self.include_schema_prefix THEN DQ \o self.schema \o DQ \o DOT ELSE <<>>

DropMaterializedViewIfExists ==
    upper(kw_drop) \o SP \o upper(kw_materialized) \o SP \o upper(kw_view) \o SP
        \o upper(kw_if) \o SP \o upper(kw_exists) \o SP

CreateMaterializedView ==
    upper(kw_create) \o SP \o upper(kw_materialized) \o SP \o upper(kw_view) \o SP

\* the first f-string of to_sql_statement_create_or_replace
drop_if_exists_statement(self) ==
    DropMaterializedViewIfExists \o literal_schema_prefix(self)
        \o DQ \o self.signature \o DQ \o <<";", " ">>

\* the second f-string of to_sql_statement_create_or_replace
create_statement(self) ==
    LET definition == rstrip(rstrip(self.definition, Whitespace), {";"})
    IN  CreateMaterializedView \o literal_schema_prefix(self)
            \o DQ \o self.signature \o DQ \o SP \o upper(kw_as) \o SP
            \o definition \o SP \o upper(kw_with) \o SP
            \o (IF ~ self.with_data THEN upper(kw_no) ELSE <<>>)
            \o SP \o upper(kw_data)

\* a generator that yields the create before the drop
create_before_drop(self) == <<create_statement(self), drop_if_exists_statement(self)>>

\* the statements to_sql_statement_create_or_replace yields, in order
to_sql_statement_create_or_replace(self) ==
    <<drop_if_exists_statement(self), create_statement(self)>>

(***************************************************************************)
(* The calls made on the materialized view entity.                         *)
(***************************************************************************)
name_v == <<"v">>
name_mv == <<"m", "v">>
schema_s == <<"s">>

\* select 1
def_select_1 == kw_select \o SP \o <<"1">>
\* SELECT 1 AS x
def_select_1_as_x == upper(kw_select) \o SP \o <<"1">> \o SP \o upper(kw_as) \o SP \o <<"x">>
\* select t.x as y from t
def_qualified_column ==
    kw_select \o SP \o <<"t", ".", "x">> \o SP \o kw_as \o SP \o <<"y">> \o SP
        \o kw_from \o SP \o <<"t">>
\* x
def_x == <<"x">>
\* with t as (select 1) select 2
def_cte ==
    kw_with \o SP \o <<"t">> \o SP \o kw_as \o SP \o <<"(">> \o def_select_1
        \o <<")">> \o SP \o kw_select \o SP \o <<"2">>

Definitions == {def_select_1, def_select_1_as_x, def_qualified_column, def_x, def_cte}

\* the schema qualifier written before the view name; <<>> is no qualifier
Qualifiers == {<<>>, schema_s, kw_public, DQ \o kw_public \o DQ}

Names == {name_v, name_mv}

Clauses == {"none", "with data", "with no data"}

Case(up, text) == IF up THEN upper(text) ELSE text

\* the WITH [NO] DATA clause, gap blanks wide between its words
ClauseText(clause, gap, up) ==
    CASE clause = "none" -> <<>>
      [] clause = "with data" ->
            SP \o Case(up, kw_with) \o Blanks(gap) \o Case(up, kw_data)
      [] clause = "with no data" ->
            SP \o Case(up, kw_with) \o Blanks(gap) \o Case(up, kw_no)
               \o Blanks(gap) \o Case(up, kw_data)

\* create materialized view <qualifier>.<name> as <definition> <clause>[;]
SqlText(qualifier, name, definition, clause, gap, semicolon, up) ==
    Case(up, kw_create) \o SP \o Case(up, kw_materialized) \o SP \o Case(up, kw_view)
        \o SP \o (IF qualifier = <<>> THEN <<>> ELSE qualifier \o DOT) \o name
        \o SP \o Case(up, kw_as) \o SP \o definition
        \o ClauseText(clause, gap, up)
        \o (IF semicolon THEN <<";">> ELSE <<>>)

FromSqlCalls ==
    { [ op |-> "from_sql", wellformed |-> TRUE, qualifier |-> q, name |-> n,
        definition |-> d, clause |-> c, gap |-> g, semicolon |-> semi, up |-> up,
        sql |-> SqlText(q, n, d, c, g, semi, up) ] :
        q \in Qualifiers, n \in Names, d \in Definitions, c \in Clauses,
        g \in 1..MaxGap, semi \in BOOLEAN, up \in BOOLEAN }

\* create materialized view <name> <definition>: a statement without its AS
MalformedCalls ==
    { [ op |-> "from_sql", wellformed |-> FALSE, qualifier |-> <<>>, name |-> n,
        definition |-> def_select_1, clause |-> "none", gap |-> 1,
        semicolon |-> semi, up |-> FALSE,
        sql |-> kw_create \o SP \o kw_materialized \o SP \o kw_view \o SP \o n
                   \o SP \o def_select_1 \o (IF semi THEN <<";">> ELSE <<>>) ] :
        n \in Names, semi \in BOOLEAN }

InitSchemas ==
    { kw_public, DQ \o kw_public \o DQ, SP \o kw_public \o SP, schema_s,
      DQ \o schema_s \o DQ }

InitSignatures == {name_mv, DQ \o name_mv \o DQ}

InitDefinitions == {def_select_1, def_select_1 \o <<";">>, def_cte \o <<" ", ";", " ">>}

InitCalls ==
    { [ op |-> "__init__", signature |-> n, definition |-> d, schema |-> q,
        with_data |-> w ] :
        n \in InitSignatures, d \in InitDefinitions, q \in InitSchemas,
        w \in BOOLEAN }

InitView ==
    /\ pc = "call"
    /\ arg \in FromSqlCalls \cup MalformedCalls \cup InitCalls
    /\ ret = NoResult
    /\ yielded = <<>>

\* PGMaterializedView.from_sql(sql)
FromSql ==
    /\ pc = "call"
    /\ arg.op = "from_sql"
    /\ ret' = from_sql(arg.sql)
    /\ pc' = IF ret'.raised = "" THEN "built" ELSE "raised"
    /\ UNCHANGED <<arg, yielded>>

\* PGMaterializedView(signature, definition, schema, with_data)
Construct ==
    /\ pc = "call"
    /\ arg.op = "__init__"
    /\ ret' = [ raised |-> "", template |-> 0,
                entity |-> __init__(arg.signature, arg.definition, arg.schema,
                                    arg.with_data) ]
    /\ pc' = "built"
    /\ UNCHANGED <<arg, yielded>>

\* next() on the generator of to_sql_statement_create_or_replace: one yield
YieldStatement ==
    /\ pc \in {"built", "yielding"}
    /\ Len(yielded) < Len(to_sql_statement_create_or_replace(ret.entity))
    /\ yielded' = Append(yielded,
                    to_sql_statement_create_or_replace(ret.entity)[Len(yielded) + 1])
    /\ pc' = "yielding"
    /\ UNCHANGED <<arg, ret>>

\* next() on the generator after its last yield: StopIteration
StopIteration ==
    /\ pc = "yielding"
    /\ Len(yielded) = Len(to_sql_statement_create_or_replace(ret.entity))
    /\ pc' = "exhausted"
    /\ UNCHANGED <<arg, ret, yielded>>

NextView == FromSql \/ Construct \/ YieldStatement \/ StopIteration

SpecView == InitView /\ [][NextView]_vars

(***************************************************************************)
(* The calls made on the text helpers: strip_terminating_semicolon is      *)
(* applied to a text and then to its own result, escape_colon_for_plpgsql  *)
(* is applied once.  ret is the sequence of the results so far.            *)
(***************************************************************************)
StripAlphabet == {"a", " ", ";"}
EscapeAlphabet == {"a", ":", "=", "\\"}

StripCalls == {[op |-> "strip", text |-> t] : t \in TextsUpTo(StripAlphabet, MaxStripLen)}
EscapeCalls == {[op |-> "escape", text |-> t] : t \in TextsUpTo(EscapeAlphabet, MaxEscLen)}

InitText ==
    /\ pc = "call"
    /\ arg \in StripCalls \cup EscapeCalls
    /\ ret = <<>>
    /\ yielded = <<>>

\* strip_terminating_semicolon(sql), on the input and then on its result
StripTerminatingSemicolon ==
    /\ pc \in {"call", "once"}
    /\ arg.op = "strip"
    /\ ret' = Append(ret, strip_terminating_semicolon(
                              IF ret = <<>> THEN arg.text ELSE ret[Len(ret)]))
    /\ pc' = IF pc = "call" THEN "once" ELSE "twice"
    /\ UNCHANGED <<arg, yielded>>

\* escape_colon_for_plpgsql(sql)
EscapeColonForPlpgsql ==
    /\ pc = "call"
    /\ arg.op = "escape"
    /\ ret' = <<escape_colon_for_plpgsql(arg.text)>>
    /\ pc' = "done"
    /\ UNCHANGED <<arg, yielded>>

NextText == StripTerminatingSemicolon \/ EscapeColonForPlpgsql

SpecText == InitText /\ [][NextText]_vars

(***************************************************************************)
(* split_function.  The grammar codec (query_to_pb, pb_to_query) is not    *)
(* part of the library: an input is described by what the codec makes of   *)
(* it, a syntax error or a list of statements, the first of which is given *)
(* by its kind and, for a routine, by the fields of its tree.              *)
(***************************************************************************)
name_f == <<"f">>
name_get_returns == <<"g", "e", "t", "_">> \o kw_returns
name_quoted == DQ \o <<"A">> \o DQ

params_none == <<>>
params_a_integer == <<"a">> \o SP \o kw_integer
params_returns_integer == kw_returns \o SP \o kw_integer

\* AS $$x$$
body_plain == SP \o upper(kw_as) \o SP \o <<"$", "$", "x", "$", "$">>
\* AS $$RETURNS void$$
body_sentinel ==
    SP \o upper(kw_as) \o SP \o <<"$", "$">> \o upper(kw_returns) \o SP \o kw_void
       \o <<"$", "$">>

FunctionKinds == {"create_function_stmt", "create_procedure_stmt"}

Routines ==
    { [ funcname |-> q \o <<n>>, parameters |-> p, return_type |-> r,
        is_procedure |-> proc, body |-> b ] :
        q \in {<<>>, <<schema_s>>},
        n \in {name_f, name_get_returns, name_quoted},
        p \in {params_none, params_a_integer, params_returns_integer},
        r \in {<<>>, kw_integer},
        proc \in BOOLEAN,
        b \in {body_plain, body_sentinel} }

NoRoutine ==
    [ funcname |-> <<>>, parameters |-> <<>>, return_type |-> <<>>,
      is_procedure |-> FALSE, body |-> <<>> ]

SplitCalls ==
    {[op |-> "split_function", syntax_ok |-> FALSE, nstmts |-> 0, kind |-> "",
      routine |-> NoRoutine]}
    \cup {[op |-> "split_function", syntax_ok |-> TRUE, nstmts |-> 0, kind |-> "",
           routine |-> NoRoutine]}
    \cup {[op |-> "split_function", syntax_ok |-> TRUE, nstmts |-> n,
           kind |-> "view_stmt", routine |-> NoRoutine] : n \in 1..MaxStmts}
    \cup {[op |-> "split_function", syntax_ok |-> TRUE, nstmts |-> n,
           kind |-> IF r.is_procedure THEN "create_procedure_stmt"
                                      ELSE "create_function_stmt",
           routine |-> r] :
           n \in 1..MaxStmts,
           r \in {x \in Routines : x.is_procedure => x.return_type = <<>>}}

\* what pb_to_query prints for a routine whose options and body are cleared
Header(name, parameters, return_type) ==
    name \o <<"(">> \o parameters \o <<")">>
        \o (IF return_type = <<>> THEN <<>>
            ELSE SP \o upper(kw_returns) \o SP \o return_type)

\* the error _get_create_function_stmt raises on a parse tree, "" for none
_get_create_function_stmt(sql) ==
    IF sql.nstmts # 1 THEN "ValueError"
    ELSE IF sql.kind \notin FunctionKinds THEN "ValueError"
    ELSE ""

\* _get_func_signature_returns_and_type: the statement text after the prefix
_get_func_signature_returns_and_type(sql) ==
    LET funcname == IF Len(sql.routine.funcname) > 1
                    THEN Tail(sql.routine.funcname) ELSE sql.routine.funcname
        stmt_str == upper(kw_create) \o SP \o upper(kw_function) \o SP
                        \o Header(funcname[1], sql.routine.parameters,
                                  sql.routine.return_type)
        prefix == kw_create \o SP \o kw_function
    IN  IF ~ HasPrefixAt(lower(stmt_str), 1, prefix)
        THEN [raised |-> "ValueError", stmt_str |-> <<>>]
        ELSE [ raised |-> "",
               stmt_str |-> strip(SubSeq(stmt_str, Len(prefix) + 1, Len(stmt_str))) ]

\* _get_func_schema
_get_func_schema(sql) ==
    LET schema_name == sql.routine.funcname[1]
    IN  IF Len(sql.routine.funcname) > 1
        THEN IF HasPrefixAt(schema_name, 1, DQ) \/ HasPrefixAt(schema_name, 1, <<"'">>)
             THEN SubSeq(schema_name, 2, Len(schema_name) - 1)
             ELSE schema_name
        ELSE kw_public

ReturnsVoid == upper(kw_returns) \o SP \o kw_void

\* _get_func_body: the text after the one "RETURNS void" of the spliced statement
_get_func_body(sql) ==
    LET head == upper(kw_create) \o SP \o upper(kw_function) \o SP
                    \o <<"f", "o", "o", ".", "b", "a", "r", "(", ")">> \o SP
        func_str == head \o ReturnsVoid \o sql.routine.body
    IN  IF count(func_str, ReturnsVoid) + 1 # 2
        THEN [raised |-> "ValueError", body |-> <<>>]
        ELSE [raised |-> "", body |-> sql.routine.body]

\* "".join(text.split('"', n)): text without its first n double quotes
RECURSIVE drop_quotes(_, _)
drop_quotes(text, n) ==
    IF n = 0 \/ Len(text) = 0 THEN text
    ELSE IF text[1] = "\"" THEN drop_quotes(Tail(text), n - 1)
    ELSE <<text[1]>> \o drop_quotes(Tail(text), n)

IdentChars ==
    {LowerLetters[i] : i \in 1..26} \cup {UpperLetters[i] : i \in 1..26}
        \cup {"_", "$", "0", "1", "2", "3", "4", "5", "6", "7", "8", "9"}

\* the lexer of the codec: words, and every other visible character by itself;
\* acc is the tokens read so far and cur the word being read
RECURSIVE Tokens(_, _, _, _)
Tokens(s, i, cur, acc) ==
    LET flushed == IF cur = <<>> THEN acc ELSE Append(acc, cur)
    IN  IF i > Len(s) THEN flushed
        ELSE IF s[i] \in IdentChars THEN Tokens(s, i + 1, Append(cur, LowerChar(s[i])), acc)
        ELSE IF s[i] \in Whitespace \cup {"\""} THEN Tokens(s, i + 1, <<>>, flushed)
        ELSE Tokens(s, i + 1, <<>>, Append(flushed, <<s[i]>>))

\* the headers the grammar accepts: <name>(<parameters>) [RETURNS <type>]
WellFormedHeaders ==
    { Tokens(Header(r.funcname[Len(r.funcname)], r.parameters, r.return_type),
             1, <<>>, <<>>) : r \in Routines }

\* validate_split_function: does the rebuilt statement parse again
validate_split_function(signature, returns, schema, body, is_proc) ==
    Tokens(signature \o SP \o returns, 1, <<>>, <<>>) \in WellFormedHeaders

NoFields ==
    [ signature |-> <<>>, returns |-> <<>>, schema |-> <<>>, body |-> <<>>,
      is_proc |-> FALSE ]

TemplateReturns == <<Field("signature"), Lit(kw_returns), Field("ret_type")>>

\* split_function: the error raised ("" for none) and the fields returned
split_function(sql) ==
    LET head == _get_func_signature_returns_and_type(sql)
        signature_and_return == head.stmt_str
        is_proc == sql.routine.is_procedure
        result == parse(TemplateReturns, signature_and_return)
        raw_signature == IF ~ result.ok THEN signature_and_return
                         ELSE strip(result.named["signature"])
        returns == IF ~ result.ok THEN <<>>
                   ELSE kw_returns \o SP \o strip(result.named["ret_type"])
        schema == _get_func_schema(sql)
        body == _get_func_body(sql)
        signature == IF HasPrefixAt(raw_signature, 1, DQ)
                     THEN drop_quotes(raw_signature, 2) ELSE raw_signature
    IN  IF ~ sql.syntax_ok
        THEN [raised |-> "SQLParseFailure", fields |-> NoFields]
        ELSE IF _get_create_function_stmt(sql) # ""
        THEN [raised |-> _get_create_function_stmt(sql), fields |-> NoFields]
        ELSE IF head.raised # ""
        THEN [raised |-> head.raised, fields |-> NoFields]
        ELSE IF body.raised # ""
        THEN [raised |-> body.raised, fields |-> NoFields]
        ELSE IF ~ validate_split_function(signature, returns, schema, body.body, is_proc)
        THEN [raised |-> "SQLParseFailure", fields |-> NoFields]
        ELSE [ raised |-> "",
               fields |-> [ signature |-> signature, returns |-> returns,
                            schema |-> schema, body |-> body.body,
                            is_proc |-> is_proc ] ]

InitSplit ==
    /\ pc = "call"
    /\ arg \in SplitCalls
    /\ ret = [raised |-> "", fields |-> NoFields]
    /\ yielded = <<>>

\* split_function(sql) returns its five fields
SplitFunctionReturns ==
    /\ pc = "call"
    /\ arg.op = "split_function"
    /\ split_function(arg).raised = ""
    /\ ret' = split_function(arg)
    /\ pc' = "returned"
    /\ UNCHANGED <<arg, yielded>>

\* split_function(sql) raises
SplitFunctionRaises ==
    /\ pc = "call"
    /\ arg.op = "split_function"
    /\ split_function(arg).raised # ""
    /\ ret' = split_function(arg)
    /\ pc' = "raised"
    /\ UNCHANGED <<arg, yielded>>

NextSplit == SplitFunctionReturns \/ SplitFunctionRaises

SpecSplit == InitSplit /\ [][NextSplit]_vars

(***************************************************************************)
(* Properties of PGMaterializedView, checked under SpecView.               *)
(***************************************************************************)
FromSqlDone == pc \in {"built", "raised"} /\ arg.op = "from_sql" /\ arg.wellformed

PlainQualifiers == {schema_s, kw_public}

C2_FieldsAreCaptured ==
    (FromSqlDone /\ arg.qualifier \in PlainQualifiers) =>
        /\ ret.raised = ""
        /\ ret.entity.schema = arg.qualifier
        /\ ret.entity.signature = arg.name
        /\ ret.entity.definition = arg.definition

\* C3: from_sql on `CREATE MATERIALIZED VIEW <name> AS <definition>`, the name
\* without a schema qualifier, returns schema = "public", signature = <name>
\* and include_schema_prefix = FALSE, whatever the definition and the clause.
C3_UnqualifiedIsPublic ==
    (FromSqlDone /\ arg.qualifier = <<>>) =>
        /\ ret.raised = ""
        /\ ret.entity.schema = kw_public
        /\ ret.entity.signature = arg.name
        /\ ret.entity.include_schema_prefix = FALSE

\* the name both statements of create-or-replace must carry
ObjectName(self) == literal_schema_prefix(self) \o DQ \o self.signature \o DQ

\* DROP MATERIALIZED VIEW IF EXISTS <schema-prefix>"<signature>", up to the
\* terminator
IsDropIfExists(statement, self) ==
    strip_terminating_semicolon(statement)
        = DropMaterializedViewIfExists \o ObjectName(self)

\* CREATE MATERIALIZED VIEW <schema-prefix>"<signature>" AS <definition>
\* WITH [NO] DATA, up to the width of the blanks
IsCreate(statement, self) ==
    normalize_whitespace(statement)
        = normalize_whitespace(
              CreateMaterializedView \o ObjectName(self) \o SP \o upper(kw_as) \o SP
                  \o self.definition \o SP \o upper(kw_with) \o SP
                  \o (IF self.with_data THEN <<>> ELSE upper(kw_no) \o SP)
                  \o upper(kw_data))

\* C4: to_sql_statement_create_or_replace produces exactly two statements, the
\* DROP MATERIALIZED VIEW IF EXISTS first and the CREATE MATERIALIZED VIEW
\* second, both naming the same object, and nothing after the create.
C4_DropThenCreate ==
    pc \in {"built", "yielding", "exhausted"} =>
        /\ Len(yielded) <= 2
        /\ pc = "built" => Len(yielded) = 0
        /\ Len(yielded) >= 1 =>
              IsDropIfExists(yielded[1], ret.entity) /\ ~ IsCreate(yielded[1], ret.entity)
        /\ Len(yielded) >= 2 => IsCreate(yielded[2], ret.entity)
        /\ pc = "exhausted" => Len(yielded) = 2

C4_Witness ==
    /\ pc = "exhausted"
    /\ Len(yielded) = 2
    /\ ret.entity.include_schema_prefix
    /\ ret.entity.with_data = FALSE
    /\ IsCreate(yielded[2], ret.entity)

\* C5: every PGMaterializedView, built from explicit fields or by from_sql,
\* has include_schema_prefix = (stored schema # "public").
C5_PrefixDerivedFromStoredSchema ==
    pc \in {"built", "yielding", "exhausted"} =>
        ret.entity.include_schema_prefix = (ret.entity.schema # kw_public)

(***************************************************************************)
(* Properties of the text helpers, checked under SpecText.                 *)
(***************************************************************************)
\* C6: strip_terminating_semicolon is idempotent: applied to its own result
\* it returns that result.
C6_StripIsIdempotent == pc = "twice" => ret[2] = ret[1]

\* the number of `;` a text ends in
RECURSIVE TrailingSemicolons(_)
TrailingSemicolons(t) ==
    IF Len(t) > 0 /\ t[Len(t)] = ";"
    THEN 1 + TrailingSemicolons(SubSeq(t, 1, Len(t) - 1))
    ELSE 0

\* C10 as stated: an input that ends, after trimming, in k >= 1 semicolons
\* gives a result that still ends in k - 1 semicolons, and an input with no
\* trailing `;` is only trimmed.
C10_AtMostOneSemicolonRemoved ==
    (pc = "once" /\ arg.op = "strip") =>
        LET k == TrailingSemicolons(strip(arg.text))
        IN  /\ k >= 1 => TrailingSemicolons(ret[1]) = k - 1
            /\ k = 0 => ret[1] = strip(arg.text)

\* C10 amended: an input that ends, after trimming, in k >= 1 semicolons gives
\* the text before all k of them, trimmed; an input with no trailing `;` is
\* only trimmed.
C10_WholeRunRemoved ==
    (pc = "once" /\ arg.op = "strip") =>
        LET t == strip(arg.text)
            k == TrailingSemicolons(t)
        IN  ret[1] = strip(SubSeq(t, 1, Len(t) - k))

C10_Witness ==
    /\ pc = "once"
    /\ arg.op = "strip"
    /\ TrailingSemicolons(strip(arg.text)) >= 2
    /\ Len(ret[1]) > 0

\* the text with a backslash put before each of the positions in at
RECURSIVE InsertBackslashes(_, _, _)
InsertBackslashes(text, at, i) ==
    IF i > Len(text) THEN <<>>
    ELSE (IF i \in at THEN BACKSLASH ELSE <<>>) \o <<text[i]>>
             \o InsertBackslashes(text, at, i + 1)

FollowedBy(text, i, c) == i < Len(text) /\ text[i + 1] = c
PrecededBy(text, i, c) == i > 1 /\ text[i - 1] = c

\* the number of colons that come right before position i
RECURSIVE ColonsBefore(_, _)
ColonsBefore(text, i) ==
    IF PrecededBy(text, i, ":") THEN 1 + ColonsBefore(text, i - 1) ELSE 0

\* the colons that are in no `::` at all, in no `:=` and not behind a backslash
ColonsOutsideAnyPair(text) ==
    { i \in 1..Len(text) :
        /\ text[i] = ":"
        /\ ~ PrecededBy(text, i, ":") /\ ~ FollowedBy(text, i, ":")
        /\ ~ FollowedBy(text, i, "=")
        /\ ~ PrecededBy(text, i, "\\") }

\* the colons left over when each run of colons is paired off from its left,
\* that are in no `:=` and not behind a backslash
ColonsLeftUnpaired(text) ==
    { i \in 1..Len(text) :
        /\ text[i] = ":"
        /\ ColonsBefore(text, i) % 2 = 0 /\ ~ FollowedBy(text, i, ":")
        /\ ~ FollowedBy(text, i, "=")
        /\ ~ PrecededBy(text, i, "\\") }

\* C8 as stated: the output is the input with a backslash before exactly the
\* colons that are not part of a `::`, not part of a `:=` and not already
\* behind a backslash.
C8_EveryCastUnescaped ==
    (pc = "done" /\ arg.op = "escape") =>
        ret[1] = InsertBackslashes(arg.text, ColonsOutsideAnyPair(arg.text), 1)

\* C8 amended: the colons of a run are paired into `::` from the left, so the
\* last colon of a run of odd length is a lone colon; the output is the input
\* with a backslash before exactly the lone colons that are not followed by
\* `=` and not already behind a backslash.
C8_PairsFromTheLeft ==
    (pc = "done" /\ arg.op = "escape") =>
        ret[1] = InsertBackslashes(arg.text, ColonsLeftUnpaired(arg.text), 1)

C8_Witness ==
    /\ pc = "done"
    /\ arg.op = "escape"
    /\ count(arg.text, COLON \o COLON) >= 1
    /\ count(arg.text, COLON \o <<"=">>) >= 1
    /\ ret[1] # arg.text

(***************************************************************************)
(* Properties of split_function, checked under SpecSplit.                  *)
(***************************************************************************)
SplitDone == pc \in {"returned", "raised"} /\ arg.op = "split_function"

OneRoutineStatement ==
    arg.syntax_ok /\ arg.nstmts = 1 /\ arg.kind \in FunctionKinds

\* C7: split_function raises SQLParseFailure, and returns no fields, on every
\* input that is not exactly one create-function or create-procedure
\* statement.
C7_RejectsWithParseFailure ==
    (SplitDone /\ ~ OneRoutineStatement) =>
        ret.raised = "SQLParseFailure" /\ ret.fields = NoFields

\* C9: a header `<name>(<params>) RETURNS <type>` is split at the RETURNS
\* keyword into the signature `<name>(<params>)` and the clause
\* `returns <type>`, also when the name or a parameter contains the letters
\* `returns`; a header without RETURNS gives the whole header and an empty
\* clause.
C9_SplitAtReturnsKeyword ==
    (SplitDone /\ OneRoutineStatement /\ arg.routine.body = body_plain) =>
        LET r == arg.routine
            name == coerce_to_unquoted(r.funcname[Len(r.funcname)])
        IN  /\ ret.raised = ""
            /\ ret.fields.signature = name \o <<"(">> \o r.parameters \o <<")">>
            /\ ret.fields.returns =
                  IF r.return_type = <<>> THEN <<>>
                  ELSE kw_returns \o SP \o r.return_type

====
